---- MODULE Spec2Model ----
(***************************************************************************)
(* The reload orchestrator of dae-wing (dae.Run in dae/dae.go) together   *)
(* with the callers that submit reload requests and persist the running   *)
(* state (config.Run in graphql/service/config).                          *)
(*                                                                         *)
(* A configuration is identified by a number: EmptyConfig is the          *)
(* `global{} routing{}` configuration, 1..NumConfigs are configurations   *)
(* assembled from selected profiles.  A request (ReloadMessage) is         *)
(* identified by its position in the order of enqueuing.  An engine        *)
(* instance (control.ControlPlane) is identified by its position in the   *)
(* order of construction.                                                  *)
(*                                                                         *)
(* The reload handler is split at its calls into the engine (EjectBpf,    *)
(* newControlPlane, InjectBpf, Close) so that the order of these calls is *)
(* visible in the states.  The logger and the dns cache carried over a    *)
(* reload (dae.go:118-128) change nothing the orchestrator decides on and *)
(* are left out.  A channel send follows the Go runtime: it completes at  *)
(* once while the buffer has room, otherwise the sender waits in order of *)
(* arrival and completes in the step that receives from the full buffer.  *)
(***************************************************************************)
EXTENDS Integers, Sequences, FiniteSets, TLC

\* ---------------------------------------------------------------- bounds
\* Assembled configurations callers may submit: 1..NumConfigs.
NumConfigs == 1
\* Calls of config.Run explored while the orchestrator serves.
MaxCalls == 3
\* Calls of config.Run explored while the orchestrator runs dry (api-only).
MaxDryCalls == 18

\* ------------------------------------------------------------- constants
\* Capacity of ChReloadConfigs.
QueueCap == 16
\* dae.EmptyConfig.
EmptyConfig == 0
\* The nil *ReloadMessage a listener goroutine sends when it stops.
NilMsg == 0
\* No engine instance / no request (a nil pointer, a nil channel).
None == 0

Configs == 0..NumConfigs
\* Configurations submitted in dry mode (one, to keep the full queue reachable).
DryReqConfigs == {1}

VARIABLES
    dry,             \* Run's parameter: api-only mode
    pc,              \* position of dae.Run
    ChReloadConfigs, \* the buffered channel: a sequence of request ids and NilMsg
    msgs,            \* the ReloadMessages enqueued so far, by id
    sendq,           \* senders blocked on the full channel, in order of arrival
    savers,          \* callers that received their reply and have not yet saved
    nCalls,          \* calls of config.Run so far
    runningState,    \* the persisted db.System record
    cur,             \* newReloadMsg: the request being applied (None outside)
    conf,            \* the configuration Run holds as current
    newConf,         \* the configuration the handler is installing
    c,               \* the current ControlPlane
    newC,            \* the ControlPlane the handler has constructed
    obj,             \* the ejected bpf objects: "none", "held" or "closed"
    reloading,
    isRollback,
    chCallback,      \* the request whose Callback is stored (None: nil channel)
    instCfg,         \* the configuration each instance was constructed from
    closed,          \* instances on which Close() was called
    serving,         \* instances whose goroutine is inside ListenAndServe/Serve
    nilPending,      \* instances whose goroutine is at `ChReloadConfigs <- nil`
    bpfHolders,      \* instances that own the bpf objects
    \* -- the graphql services over the database (ServiceSpec)
    tables,          \* the rows of db.Config, db.Dns, db.Routing, db.Group, db.System
    txBegin,         \* the rows as they were when the running transaction began
    svcPc,           \* position of the service call in progress
    call,            \* the service call in progress
    locals,          \* mConfig, mDns, mRouting and groups of config.Run
    request,         \* the ReloadMessage the call sent and waits on
    returned,        \* what the last service call returned
    \* -- the assembly of nodes and groups in config.Run (AssemblySpec)
    asmPc,           \* position in config.Run, lines 340-413
    loaded,          \* `nodes` as collected from the groups (lines 340-365)
    nodes,           \* `nodes` after deduplicateNodes
    cGroup,          \* c.Group
    cNode            \* c.Node

daeVars == <<dry, pc, ChReloadConfigs, msgs, sendq, savers, nCalls, runningState,
             cur, conf, newConf, c, newC, obj, reloading, isRollback, chCallback,
             instCfg, closed, serving, nilPending, bpfHolders>>
serviceVars == <<tables, txBegin, svcPc, call, locals, request, returned>>
assemblyVars == <<asmPc, loaded, nodes, cGroup, cNode>>
vars == <<daeVars, serviceVars, assemblyVars>>

orchVars == <<cur, conf, newConf, c, newC, obj, reloading, isRollback, chCallback>>
engineVars == <<instCfg, closed, serving, nilPending, bpfHolders>>
callerVars == <<savers, nCalls, runningState>>
chanVars == <<ChReloadConfigs, sendq, msgs>>

\* ------------------------------------------------------------- helpers
Instances == 1..Len(instCfg)
MsgIds == 1..Len(msgs)

\* The process is alive: log.Fatalln has not ended it.
Alive == pc # "fatal"

\* What a blocked sender holds: the configuration of its ReloadMessage, or NilSend
\* for a listener goroutine sending nil.
NilSend == 0 - 1

\* A new ReloadMessage carrying cfg.
\* st: "queued", "handling" (dequeued, no reply yet) or "replied"; res: how the
\* orchestrator ended it ("none", "dry", "commit", "rollback"); inst: the
\* instance constructed for it.
Message(cfg) == [cfg |-> cfg, st |-> "queued", res |-> "none", inst |-> None]

\* The value put into the buffer for a send of x: nil, or the id of the request,
\* which is its position in ms, the messages enqueued so far.
Item(x, ms) == IF x = NilSend THEN NilMsg ELSE Len(ms) + 1
Logged(x, ms) == IF x = NilSend THEN ms ELSE Append(ms, Message(x))

CanSend_OneLess(q) == Len(q) < QueueCap - 1
\* A send on the buffered channel proceeds only while the buffer has room.
CanSend(q) == Len(q) < QueueCap

Buffered_Front(q, m) == <<m>> \o q
\* The buffer after value m is put into it.
Buffered(q, m) == Append(q, m)

\* `ChReloadConfigs <- x`: into the buffer, or the sender blocks.
Send(x) ==
    IF CanSend(ChReloadConfigs) /\ sendq = <<>>
        THEN /\ ChReloadConfigs' = Buffered(ChReloadConfigs, Item(x, msgs))
             /\ msgs' = Logged(x, msgs)
             /\ sendq' = sendq
        ELSE /\ sendq' = Append(sendq, x)
             /\ UNCHANGED <<ChReloadConfigs, msgs>>

Refilled_Drop(q) == Tail(q)
\* The buffer after a receive: the head leaves and the longest-blocked sender,
\* if any, completes its send.
Refilled(q) ==
    IF sendq = <<>> THEN Tail(q)
    ELSE Buffered(Tail(q), Item(Head(sendq), msgs))

\* The messages and the blocked senders after a receive.
MsgsAfterRecv == IF sendq = <<>> THEN msgs ELSE Logged(Head(sendq), msgs)
SendqAfterRecv == IF sendq = <<>> THEN sendq ELSE Tail(sendq)

\* Requests a caller may submit in the current mode.
ReqConfigs == IF dry THEN DryReqConfigs ELSE Configs
CallLimit == IF dry THEN MaxDryCalls ELSE MaxCalls

\* The kinds of caller waiting to save: the configuration submitted and how the
\* orchestrator ended the request ("dry", "commit", "rollback").
SaveKinds == [cfg : Configs, res : {"dry", "commit", "rollback"}]

\* The configuration RunningState describes.
Described(rs) == IF rs.running THEN rs.cfg ELSE EmptyConfig

\* ------------------------------------------------------------------ Init
\* The variables of the services and of the assembly while the orchestrator is
\* explored, and those of the orchestrator while the others are.
ServiceParked ==
    /\ tables = <<>>
    /\ txBegin = <<>>
    /\ svcPc = "parked"
    /\ call = <<>>
    /\ locals = <<>>
    /\ request = <<>>
    /\ returned = <<>>

AssemblyParked ==
    /\ asmPc = "parked"
    /\ loaded = <<>>
    /\ nodes = <<>>
    /\ cGroup = <<>>
    /\ cNode = <<>>

DaeStart ==
    /\ pc = "start"
    /\ ChReloadConfigs = <<>>
    /\ msgs = <<>>
    /\ sendq = <<>>
    /\ savers = [k \in SaveKinds |-> 0]
    /\ nCalls = 0
    /\ runningState = [running |-> FALSE, cfg |-> EmptyConfig]
    /\ cur = None
    /\ conf = EmptyConfig
    /\ newConf = EmptyConfig
    /\ c = None
    /\ newC = None
    /\ obj = "none"
    /\ reloading = FALSE
    /\ isRollback = FALSE
    /\ chCallback = None
    /\ instCfg = <<>>
    /\ closed = {}
    /\ serving = {}
    /\ nilPending = {}
    /\ bpfHolders = {}

DaeParked == dry = FALSE /\ DaeStart

Init ==
    /\ dry \in BOOLEAN
    /\ DaeStart
    /\ ServiceParked
    /\ AssemblyParked

\* --------------------------------------------------------------- callers
\* config.Run executes `dae.ChReloadConfigs <- &dae.ReloadMessage{...}`:
\* with dae.EmptyConfig when noLoad, with the assembled configuration otherwise.
\* The caller then waits on its own callback channel.
Submit(cfg) ==
    /\ Alive
    /\ nCalls < CallLimit
    /\ cfg \in ReqConfigs
    /\ nCalls' = nCalls + 1
    /\ Send(cfg)
    /\ UNCHANGED <<dry, pc, savers, runningState>>
    /\ UNCHANGED orchVars
    /\ UNCHANGED engineVars

\* What config.Run writes to db.System after a reply without error.
SavedState(rs, cfg) ==
    IF cfg = EmptyConfig
        THEN [rs EXCEPT !.running = FALSE]
        ELSE [running |-> TRUE, cfg |-> cfg]

\* A caller that received its reply saves the running status and returns.
CallerSave(k) ==
    /\ Alive
    /\ savers[k] > 0
    /\ savers' = [savers EXCEPT ![k] = @ - 1]
    /\ runningState' = SavedState(runningState, k.cfg)
    /\ UNCHANGED <<dry, pc, ChReloadConfigs, msgs, sendq, nCalls>>
    /\ UNCHANGED orchVars
    /\ UNCHANGED engineVars

\* ------------------------------------------------------ engine instances
\* newControlPlane(...) returned an instance built from cfg.
Constructed(cfg) == Append(instCfg, cfg)

EjectBpf_Keep(i) == bpfHolders
\* c.EjectBpf(): the instance gives its bpf objects away.
EjectBpf(i) == bpfHolders \ {i}

\* newC.InjectBpf(obj): the instance takes the bpf objects over.
InjectInto(i) == bpfHolders \cup {i}

\* Close() releases what the instance still owns.
CloseBpf(i) == bpfHolders \ {i}

\* ---------------------------------------------------------- orchestrator
\* The reply `Callback <- true` is received by the caller of request r, which
\* goes on to save the running state.
Replied(ms, r, res) == [ms EXCEPT ![r].st = "replied", ![r].res = res]
Received(r, res) == [savers EXCEPT ![[cfg |-> msgs[r].cfg, res |-> res]] = @ + 1]

\* Run starts: the dry loop, or the first control plane and its listener goroutine.
RunStart(ok) ==
    /\ pc = "start"
    /\ IF dry
         THEN /\ pc' = "dryLoop"
              /\ UNCHANGED <<c, instCfg, serving, bpfHolders>>
         ELSE IF ok
           THEN /\ instCfg' = Constructed(conf)
                /\ c' = Len(instCfg) + 1
                /\ bpfHolders' = InjectInto(Len(instCfg) + 1)
                /\ serving' = serving \cup {Len(instCfg) + 1}
                /\ pc' = "loop"
           ELSE /\ pc' = "exited"
                /\ UNCHANGED <<c, instCfg, serving, bpfHolders>>
    /\ UNCHANGED <<dry, closed, nilPending>>
    /\ UNCHANGED <<cur, conf, newConf, newC, obj, reloading, isRollback, chCallback>>
    /\ UNCHANGED callerVars
    /\ UNCHANGED chanVars

\* One iteration of dryLoop: nil ends it, a request is acknowledged at once.
DryLoop ==
    /\ pc = "dryLoop"
    /\ ChReloadConfigs # <<>>
    /\ ChReloadConfigs' = Refilled(ChReloadConfigs)
    /\ sendq' = SendqAfterRecv
    /\ IF Head(ChReloadConfigs) = NilMsg
         THEN /\ pc' = "exited"
              /\ msgs' = MsgsAfterRecv
              /\ UNCHANGED savers
         ELSE /\ msgs' = Replied(MsgsAfterRecv, Head(ChReloadConfigs), "dry")
              /\ savers' = Received(Head(ChReloadConfigs), "dry")
              /\ pc' = pc
    /\ UNCHANGED <<dry, nCalls, runningState>>
    /\ UNCHANGED orchVars
    /\ UNCHANGED engineVars

\* A request is dequeued: eject the bpf objects of the current control plane.
ReloadBegin ==
    /\ pc = "loop"
    /\ ChReloadConfigs # <<>>
    /\ Head(ChReloadConfigs) # NilMsg
    /\ ChReloadConfigs' = Refilled(ChReloadConfigs)
    /\ sendq' = SendqAfterRecv
    /\ cur' = Head(ChReloadConfigs)
    /\ msgs' = [MsgsAfterRecv EXCEPT ![Head(ChReloadConfigs)].st = "handling"]
    /\ newConf' = msgs[Head(ChReloadConfigs)].cfg
    /\ bpfHolders' = EjectBpf(c)
    /\ obj' = "held"
    /\ pc' = "construct"
    /\ UNCHANGED <<dry, conf, c, newC, reloading, isRollback, chCallback>>
    /\ UNCHANGED <<instCfg, closed, serving, nilPending>>
    /\ UNCHANGED callerVars

\* newControlPlane(log, obj, dnsCache, newConf, ...) succeeds or fails.
ConstructNew(ok) ==
    /\ pc = "construct"
    /\ IF ok
         THEN /\ instCfg' = Constructed(newConf)
              /\ newC' = Len(instCfg) + 1
              /\ isRollback' = FALSE
              /\ msgs' = [msgs EXCEPT ![cur].res = "commit", ![cur].inst = Len(instCfg) + 1]
              /\ pc' = "inject"
         ELSE /\ pc' = "rollback"
              /\ UNCHANGED <<instCfg, newC, isRollback, msgs>>
    /\ UNCHANGED <<dry, ChReloadConfigs, sendq, cur, conf, newConf, c, obj, reloading, chCallback>>
    /\ UNCHANGED <<closed, serving, nilPending, bpfHolders>>
    /\ UNCHANGED callerVars

RollbackFailed_NoRelease ==
    /\ obj' = obj
    /\ closed' = closed \cup {c}
    /\ bpfHolders' = CloseBpf(c)
    /\ pc' = "fatal"
    /\ UNCHANGED <<instCfg, newC, newConf, msgs>>

\* Both constructions failed: obj.Close(), c.Close(), log.Fatalln.
RollbackFailed ==
    /\ obj' = "closed"
    /\ closed' = closed \cup {c}
    /\ bpfHolders' = CloseBpf(c)
    /\ pc' = "fatal"
    /\ UNCHANGED <<instCfg, newC, newConf, msgs>>

\* Load last config back: newControlPlane(log, obj, dnsCache, conf, ...).
ConstructOld(ok) ==
    /\ pc = "rollback"
    /\ IF ok
         THEN /\ instCfg' = Constructed(conf)
              /\ newC' = Len(instCfg) + 1
              /\ newConf' = conf
              /\ msgs' = [msgs EXCEPT ![cur].res = "rollback", ![cur].inst = Len(instCfg) + 1]
              /\ pc' = "inject"
              /\ UNCHANGED <<obj, closed, bpfHolders>>
         ELSE RollbackFailed
    /\ UNCHANGED <<dry, ChReloadConfigs, sendq, cur, conf, c, reloading, isRollback, chCallback>>
    /\ UNCHANGED <<serving, nilPending>>
    /\ UNCHANGED callerVars

\* newC.InjectBpf(obj).
InjectBpf ==
    /\ pc = "inject"
    /\ bpfHolders' = InjectInto(newC)
    /\ obj' = "none"
    /\ pc' = "swap"
    /\ UNCHANGED <<dry, ChReloadConfigs, sendq, msgs>>
    /\ UNCHANGED <<cur, conf, newConf, c, newC, reloading, isRollback, chCallback>>
    /\ UNCHANGED <<instCfg, closed, serving, nilPending>>
    /\ UNCHANGED callerVars

SwapClose_ServeNow ==
    /\ pc = "swap"
    /\ c' = newC
    /\ conf' = newConf
    /\ reloading' = TRUE
    /\ chCallback' = cur
    /\ closed' = closed \cup {c}
    /\ bpfHolders' = CloseBpf(c)
    /\ serving' = serving \cup {newC}
    /\ cur' = None
    /\ newC' = None
    /\ pc' = "loop"
    /\ UNCHANGED <<dry, ChReloadConfigs, sendq, msgs, newConf, obj, isRollback>>
    /\ UNCHANGED <<instCfg, nilPending>>
    /\ UNCHANGED callerVars

SwapClose_RequestedConf ==
    /\ pc = "swap"
    /\ c' = newC
    /\ conf' = msgs[cur].cfg
    /\ reloading' = TRUE
    /\ chCallback' = cur
    /\ closed' = closed \cup {c}
    /\ bpfHolders' = CloseBpf(c)
    /\ cur' = None
    /\ newC' = None
    /\ pc' = "loop"
    /\ UNCHANGED <<dry, ChReloadConfigs, sendq, msgs, newConf, obj, isRollback>>
    /\ UNCHANGED <<instCfg, serving, nilPending>>
    /\ UNCHANGED callerVars

\* Prepare new context and close the old control plane.
SwapClose ==
    /\ pc = "swap"
    /\ c' = newC
    /\ conf' = newConf
    /\ reloading' = TRUE
    /\ chCallback' = cur
    /\ closed' = closed \cup {c}
    /\ bpfHolders' = CloseBpf(c)
    /\ cur' = None
    /\ newC' = None
    /\ pc' = "loop"
    /\ UNCHANGED <<dry, ChReloadConfigs, sendq, msgs, newConf, obj, isRollback>>
    /\ UNCHANGED <<instCfg, serving, nilPending>>
    /\ UNCHANGED callerVars

\* nil is dequeued while reloading: serve with the new control plane.
SentinelServe ==
    /\ pc = "loop"
    /\ ChReloadConfigs # <<>>
    /\ Head(ChReloadConfigs) = NilMsg
    /\ reloading
    /\ ChReloadConfigs' = Refilled(ChReloadConfigs)
    /\ sendq' = SendqAfterRecv
    /\ msgs' = MsgsAfterRecv
    /\ reloading' = FALSE
    /\ serving' = serving \cup {c}
    /\ pc' = "waitReady"
    /\ UNCHANGED dry
    /\ UNCHANGED <<cur, conf, newConf, c, newC, obj, isRollback, chCallback>>
    /\ UNCHANGED <<instCfg, closed, nilPending, bpfHolders>>
    /\ UNCHANGED callerVars

\* `<-readyChan`, then the reply is due unless isRollback.
Ready ==
    /\ pc = "waitReady"
    /\ pc' = IF isRollback THEN "loop" ELSE "callback"
    /\ UNCHANGED <<dry, ChReloadConfigs, sendq, msgs>>
    /\ UNCHANGED orchVars
    /\ UNCHANGED engineVars
    /\ UNCHANGED callerVars

\* `chCallback <- true`: blocks until the caller of that request receives.
Callback ==
    /\ pc = "callback"
    /\ chCallback # None
    /\ msgs[chCallback].st = "handling"
    /\ msgs' = Replied(msgs, chCallback, msgs[chCallback].res)
    /\ savers' = Received(chCallback, msgs[chCallback].res)
    /\ pc' = "loop"
    /\ UNCHANGED <<dry, ChReloadConfigs, sendq, nCalls, runningState>>
    /\ UNCHANGED orchVars
    /\ UNCHANGED engineVars

\* nil is dequeued while not reloading: leave the loop, close c, return.
LoopExit_NoClose ==
    /\ pc = "loop"
    /\ ChReloadConfigs # <<>>
    /\ Head(ChReloadConfigs) = NilMsg
    /\ ~reloading
    /\ ChReloadConfigs' = Refilled(ChReloadConfigs)
    /\ sendq' = SendqAfterRecv
    /\ msgs' = MsgsAfterRecv
    /\ pc' = "exited"
    /\ UNCHANGED dry
    /\ UNCHANGED orchVars
    /\ UNCHANGED engineVars
    /\ UNCHANGED callerVars

LoopExit ==
    /\ pc = "loop"
    /\ ChReloadConfigs # <<>>
    /\ Head(ChReloadConfigs) = NilMsg
    /\ ~reloading
    /\ ChReloadConfigs' = Refilled(ChReloadConfigs)
    /\ sendq' = SendqAfterRecv
    /\ msgs' = MsgsAfterRecv
    /\ closed' = closed \cup {c}
    /\ bpfHolders' = CloseBpf(c)
    /\ pc' = "exited"
    /\ UNCHANGED dry
    /\ UNCHANGED orchVars
    /\ UNCHANGED <<instCfg, serving, nilPending>>
    /\ UNCHANGED callerVars

\* --------------------------------------------------- listener goroutines
\* ListenAndServe/Serve of a closed control plane returns.
ServeReturn(i) ==
    /\ Alive
    /\ i \in serving
    /\ i \in closed
    /\ serving' = serving \ {i}
    /\ nilPending' = nilPending \cup {i}
    /\ UNCHANGED <<dry, pc, ChReloadConfigs, sendq, msgs, instCfg, closed, bpfHolders>>
    /\ UNCHANGED orchVars
    /\ UNCHANGED callerVars

\* ListenAndServe/Serve returns with an error although nobody closed it.
ListenerFail(i) ==
    /\ Alive
    /\ i \in serving
    /\ i \notin closed
    /\ ~(pc = "waitReady" /\ i = c)
    /\ serving' = serving \ {i}
    /\ nilPending' = nilPending \cup {i}
    /\ UNCHANGED <<dry, pc, ChReloadConfigs, sendq, msgs, instCfg, closed, bpfHolders>>
    /\ UNCHANGED orchVars
    /\ UNCHANGED callerVars

\* `ChReloadConfigs <- nil` of a listener goroutine.
SendNil(i) ==
    /\ Alive
    /\ i \in nilPending
    /\ Send(NilSend)
    /\ nilPending' = nilPending \ {i}
    /\ UNCHANGED <<dry, pc, instCfg, closed, serving, bpfHolders>>
    /\ UNCHANGED orchVars
    /\ UNCHANGED callerVars

\* The process is told to stop while Run is in api-only mode: a nil is sent
\* on ChReloadConfigs, once.  (In this mode Run starts no listener; the
\* sender is outside the orchestrator.)
DryShutdown ==
    /\ dry
    /\ pc \in {"start", "dryLoop"}
    /\ \A i \in DOMAIN ChReloadConfigs : ChReloadConfigs[i] # NilMsg
    /\ \A i \in DOMAIN sendq : sendq[i] # NilSend
    /\ Send(NilSend)
    /\ UNCHANGED <<dry, pc>>
    /\ UNCHANGED orchVars
    /\ UNCHANGED engineVars
    /\ UNCHANGED callerVars

\* ------------------------------------------------------------------ Next
Next ==
    \/ \E cfg \in Configs : Submit(cfg) /\ UNCHANGED <<serviceVars, assemblyVars>>
    \/ \E k \in SaveKinds : CallerSave(k) /\ UNCHANGED <<serviceVars, assemblyVars>>
    \/ \E ok \in BOOLEAN : RunStart(ok) /\ UNCHANGED <<serviceVars, assemblyVars>>
    \/ DryLoop /\ UNCHANGED <<serviceVars, assemblyVars>>
    \/ ReloadBegin /\ UNCHANGED <<serviceVars, assemblyVars>>
    \/ \E ok \in BOOLEAN : ConstructNew(ok) /\ UNCHANGED <<serviceVars, assemblyVars>>
    \/ \E ok \in BOOLEAN : ConstructOld(ok) /\ UNCHANGED <<serviceVars, assemblyVars>>
    \/ InjectBpf /\ UNCHANGED <<serviceVars, assemblyVars>>
    \/ SwapClose /\ UNCHANGED <<serviceVars, assemblyVars>>
    \/ SentinelServe /\ UNCHANGED <<serviceVars, assemblyVars>>
    \/ Ready /\ UNCHANGED <<serviceVars, assemblyVars>>
    \/ Callback /\ UNCHANGED <<serviceVars, assemblyVars>>
    \/ LoopExit /\ UNCHANGED <<serviceVars, assemblyVars>>
    \/ \E i \in Instances : ServeReturn(i) /\ UNCHANGED <<serviceVars, assemblyVars>>
    \/ \E i \in Instances : ListenerFail(i) /\ UNCHANGED <<serviceVars, assemblyVars>>
    \/ \E i \in Instances : SendNil(i) /\ UNCHANGED <<serviceVars, assemblyVars>>
    \/ DryShutdown /\ UNCHANGED <<serviceVars, assemblyVars>>

Spec == Init /\ [][Next]_vars

\* ================================================================ claims
InHandler == pc \in {"construct", "rollback", "inject", "swap"}
InBuffer(r) == \E i \in DOMAIN ChReloadConfigs : ChReloadConfigs[i] = r

\* C1: a reload request that ended in a rollback never receives the success
\* value on its callback (every reply the orchestrator sends is `true`).
C1_NoSuccessOnRollback ==
    \A r \in MsgIds : msgs[r].res = "rollback" => msgs[r].st # "replied"

\* C2: every dequeued request is answered on its own callback, none is lost:
\* a request dequeued and not yet answered is still the one the orchestrator
\* is applying or the one whose callback it holds for the reply.
C2_NoReplyLost ==
    \A r \in MsgIds : msgs[r].st = "handling" => (cur = r \/ chCallback = r)

\* C3: the request queue is a FIFO with one consumer: the buffer holds exactly
\* the requests not yet dequeued, each once and in the order of enqueuing;
\* requests are dequeued in that order; and a sender is blocked only while the
\* buffer holds QueueCap items.
C3_FifoSingleConsumer ==
    /\ \A r \in MsgIds : (msgs[r].st = "queued") <=> InBuffer(r)
    /\ \A i, j \in DOMAIN ChReloadConfigs :
          (i < j /\ ChReloadConfigs[i] # NilMsg /\ ChReloadConfigs[j] # NilMsg)
              => ChReloadConfigs[i] < ChReloadConfigs[j]
    /\ \A r, r2 \in MsgIds : (r2 < r /\ msgs[r].st # "queued") => msgs[r2].st # "queued"
    /\ sendq # <<>> => Len(ChReloadConfigs) = QueueCap
    /\ Len(ChReloadConfigs) <= QueueCap

\* A sender is blocked on the full buffer after earlier requests were dequeued.
C3_Witness ==
    /\ sendq # <<>>
    /\ Len(ChReloadConfigs) = QueueCap
    /\ \E r \in MsgIds : msgs[r].st = "replied"

\* C4: the orchestrator applies a request (eject, construct) only from the
\* Serving state, never while the reloading flag of a previous request is set.
C4_ReloadOnlyFromServing == InHandler => ~reloading

\* C5: a request whose engine constructed successfully commits: its instance
\* goes on to serve and the request is answered, so that instance is not closed
\* while the request is still unanswered.
C5_CommitIsAnswered ==
    \A r \in MsgIds :
        (msgs[r].res = "commit" /\ msgs[r].inst \in closed) => msgs[r].st = "replied"

\* C6: when both constructions fail the orchestrator releases the ejected
\* bundle and the current instance and the process ends: from then on nothing
\* is dequeued, processed or answered.
C6_FatalTerminates ==
    /\ [](pc = "fatal" => (obj = "closed" /\ c \in closed /\ bpfHolders = {}))
    /\ [][(pc = "rollback" /\ pc' # pc /\ instCfg' = instCfg)
              => (pc' = "fatal" /\ obj' = "closed" /\ c \in closed')]_vars
    /\ [][pc # "fatal"]_vars

\* The process ended while a request was still queued.
C6_Witness ==
    /\ pc = "fatal"
    /\ \E r \in MsgIds : msgs[r].st = "queued"

\* C7: the bpf objects have one owner through every reload: at most one
\* instance owns them, or they are in transit; they are in transit while a
\* replacement is constructed; an instance owns them when it starts serving;
\* and the replaced instance is closed only when it no longer owns them and
\* the replacement does.
C7_SingleOwner ==
    /\ [](Cardinality(bpfHolders) + (IF obj = "held" THEN 1 ELSE 0) <= 1)
    /\ []((pc \in {"construct", "rollback", "inject"}) => (obj = "held" /\ bpfHolders = {}))
    /\ [][\A i \in serving' \ serving : (i \in bpfHolders \/ pc = "start")]_vars
    /\ [][pc = "swap" => \A i \in closed' \ closed :
              (i \notin bpfHolders /\ bpfHolders = {c'} /\ obj = "none")]_vars

\* A replacement serves with the bundle after the replaced instance was closed.
C7_Witness ==
    /\ pc = "loop"
    /\ c > 1
    /\ c \in serving
    /\ bpfHolders = {c}
    /\ (c - 1) \in closed

\* C8: at most one engine instance is serving at any time, and a replacement
\* starts serving only in the step that dequeues a stop sentinel, when no other
\* instance is serving.
C8_OneServing ==
    /\ [](Cardinality(serving) <= 1)
    /\ [][\A i \in serving' \ serving :
              pc # "start" =>
                  /\ serving = {}
                  /\ ChReloadConfigs # <<>>
                  /\ Head(ChReloadConfigs) = NilMsg]_vars

\* A replacement is serving and the replaced instance's goroutine has returned.
C8_Witness ==
    /\ c > 1
    /\ serving = {c}
    /\ 1 \in closed
    /\ pc = "loop"

\* C9: the configuration recorded as current is the one the current instance
\* was built from, and a rollback leaves it unchanged.
C9_BoundToBuiltConfig ==
    /\ [](c # None => instCfg[c] = conf)
    /\ [][(pc = "swap" /\ pc' # pc /\ msgs[cur].res = "rollback")
              => (conf' = conf /\ instCfg[c'] = conf)]_vars
    /\ [][(pc = "swap" /\ pc' # pc /\ msgs[cur].res = "commit")
              => conf' = msgs[cur].cfg]_vars

\* After a committed reload, a request for another configuration was rolled back.
C9_Witness ==
    /\ pc = "loop"
    /\ \E r0, r \in MsgIds :
          /\ r0 < r
          /\ msgs[r0].res = "commit"
          /\ msgs[r].res = "rollback"
          /\ msgs[r].cfg # conf
          /\ msgs[r0].cfg = conf

\* C10: the caller of a request that ended in a rollback leaves the persisted
\* RunningState unchanged.
C10_RollbackKeepsRunningState ==
    [][\A k \in SaveKinds :
          (k.res = "rollback" /\ savers'[k] < savers[k]) => runningState' = runningState]_vars

\* ======================================================== the services
\* The graphql services of config (part_000) and routing (mutation_utils.go)
\* over the database.  A service call runs from its first statement to the
\* point where it waits for the orchestrator's reply, and from the reply to
\* its return.  Calls are explored one at a time; the reply to a request is
\* an input: nil or an error, as the `chan error` of config.Run admits.
\* dae.ParseConfig (line 300) is taken to succeed: Create and Update store
\* only text that parsed.

\* ---------------------------------------------------------------- bounds
\* Rows of db.Config: ids 1..NumProfiles.
NumProfiles == 2
\* Versions a row may reach: 0..MaxVersion.
MaxVersion == 1

ConfigIds == 1..NumProfiles
Versions == 0..MaxVersion
\* The rows of db.Routing, by id: the outbound names dae.NecessaryOutbounds
\* finds in each routing text.
RoutingOutbounds ==
    << <<"direct", "g1">>,
       <<"g1", "g2">>,
       <<"g2", "gx", "must_direct", "gy">> >>
RoutingIds == DOMAIN RoutingOutbounds
\* An id no row of db.Routing has.
NoRoutingId == Len(RoutingOutbounds) + 1
\* The rows of db.Group, in the order Find returns them.
GroupOrder == <<"g1", "g2">>
GroupNames == {GroupOrder[k] : k \in DOMAIN GroupOrder}
\* The version of each row of db.Group.
GroupVersions == [g \in GroupNames |-> IF g = "g1" THEN 0 ELSE MaxVersion]
\* The only row of db.Dns.
DnsId == 1
Presets == {"direct", "block", "must_direct"}

NoError == [msg |-> "", names |-> {}]
Failure(msg) == [msg |-> msg, names |-> {}]
ReloadError == Failure("reload failed")
NoRow == [id |-> 0, version |-> 0]
NoLocals == [mConfig |-> NoRow, mDns |-> NoRow, mRouting |-> NoRow, groups |-> <<>>]
NoRequest == <<>>
NoCall == ""
NoTx == <<>>

\* A db.System row as FirstOrCreate creates it.
NewSystem ==
    [running |-> FALSE,
     running_config_id |-> 0, running_config_version |-> 0,
     running_dns_id |-> 0, running_dns_version |-> 0,
     running_routing_id |-> 0, running_routing_version |-> 0,
     running_group_versions |-> <<>>]

ServiceStart ==
    /\ \E dnsSel \in BOOLEAN, dnsVer \in Versions :
         tables = [config  |-> [i \in ConfigIds |->
                                  [st |-> "row", selected |-> FALSE, version |-> 0]],
                   dns     |-> [selected |-> dnsSel, version |-> dnsVer],
                   routing |-> [i \in RoutingIds |-> [selected |-> FALSE, version |-> 0]],
                   group   |-> GroupVersions,
                   sys     |-> NewSystem]
    /\ txBegin = NoTx
    /\ svcPc = "idle"
    /\ call = NoCall
    /\ locals = NoLocals
    /\ request = NoRequest
    /\ returned = [n |-> 0, err |-> NoError]

\* ------------------------------------------------------------- queries
\* The ids of the rows `Where("selected = ?", true)` matches.
SelectedConfigs(t) == {i \in ConfigIds : t.config[i].st = "row" /\ t.config[i].selected}
SelectedRoutings(t) == {i \in RoutingIds : t.routing[i].selected}
\* First(&m): the matching row of lowest primary key.
First(ids) == CHOOSE i \in ids : \A j \in ids : i <= j

\* Find(&groups) with `name in outbounds`.
FoundGroups(outbounds) ==
    SelectSeq(GroupOrder, LAMBDA g : \E k \in DOMAIN outbounds : outbounds[k] = g)

\* notFound of lines 317-334: computed only when the number of rows found
\* differs from len(outbounds); preset names are not missing.
NotFound_KeepFound(outbounds, groups) ==
    IF Len(groups) # Len(outbounds)
        THEN {outbounds[k] : k \in DOMAIN outbounds} \ Presets
        ELSE {}

NotFound(outbounds, groups) ==
    IF Len(groups) # Len(outbounds)
        THEN ({outbounds[k] : k \in DOMAIN outbounds} \ {groups[k] : k \in DOMAIN groups})
                 \ Presets
        ELSE {}

\* config.Run(d, false) from line 276 to the send of line 417 on the rows t:
\* the error it returns, or the rows it read and the configuration it sends.
Assembled(t) ==
    IF SelectedConfigs(t) = {} THEN [err |-> Failure("please select a config")]
    ELSE IF ~t.dns.selected THEN [err |-> Failure("please select a dns")]
    ELSE IF SelectedRoutings(t) = {} THEN [err |-> Failure("please select a routing")]
    ELSE
        LET ci == First(SelectedConfigs(t))
            ri == First(SelectedRoutings(t))
            mConfig == [id |-> ci, version |-> t.config[ci].version]
            mDns == [id |-> DnsId, version |-> t.dns.version]
            mRouting == [id |-> ri, version |-> t.routing[ri].version]
            outbounds == RoutingOutbounds[ri]
            found == FoundGroups(outbounds)
            groups == [k \in DOMAIN found |->
                          [name |-> found[k], version |-> t.group[found[k]]]]
            notFound == NotFound(outbounds, found)
        IN  IF notFound # {}
                THEN [err |-> [msg |-> "groups not defined but referenced by routing",
                               names |-> notFound]]
                ELSE [err |-> NoError,
                      locals |-> [mConfig |-> mConfig, mDns |-> mDns,
                                  mRouting |-> mRouting, groups |-> groups],
                      c |-> [global |-> mConfig, dns |-> mDns, routing |-> mRouting,
                             group |-> groups]]

\* ------------------------------------------------------------- returns
\* The call returns: the transaction commits the rows t when err is nil and
\* rolls back to the rows `before` otherwise.
Return_Commit(n, err, t, before) ==
    /\ tables' = t
    /\ returned' = [n |-> n, err |-> err]
    /\ svcPc' = "idle"
    /\ txBegin' = NoTx
    /\ call' = NoCall
    /\ locals' = NoLocals
    /\ request' = NoRequest

Return(n, err, t, before) ==
    /\ tables' = IF err = NoError THEN t ELSE before
    /\ returned' = [n |-> n, err |-> err]
    /\ svcPc' = "idle"
    /\ txBegin' = NoTx
    /\ call' = NoCall
    /\ locals' = NoLocals
    /\ request' = NoRequest

\* config.Run(d, false) on the rows t, up to `errReload := <-chReloadCallback`.
RunLoad(op, t) ==
    LET a == Assembled(t)
    IN  IF a.err # NoError
            THEN Return(0, a.err, t, tables)
            ELSE /\ tables' = t
                 /\ txBegin' = tables
                 /\ svcPc' = "waitLoad"
                 /\ call' = op
                 /\ locals' = a.locals
                 /\ request' = [Config |-> a.c]
                 /\ UNCHANGED returned

\* config.Run(d, true) on the rows t, up to `err = <-ch`.
RunStop_MarkFirst(op, t) ==
    /\ tables' = [t EXCEPT !.sys.running = FALSE]
    /\ txBegin' = tables
    /\ svcPc' = "waitStop"
    /\ call' = op
    /\ request' = [Config |-> EmptyConfig]
    /\ UNCHANGED <<locals, returned>>

RunStop(op, t) ==
    /\ tables' = t
    /\ txBegin' = tables
    /\ svcPc' = "waitStop"
    /\ call' = op
    /\ request' = [Config |-> EmptyConfig]
    /\ UNCHANGED <<locals, returned>>

\* ---------------------------------------------------------- config calls
\* config.Update.
ConfigUpdate(id) ==
    /\ svcPc = "idle"
    /\ IF tables.config[id].st # "row"
           THEN Return(0, Failure("record not found"), tables, tables)
           ELSE /\ tables.config[id].version < MaxVersion
                /\ Return(1, NoError,
                          [tables EXCEPT !.config[id].version = @ + 1], tables)

Unselected(rows) == [i \in DOMAIN rows |-> [rows[i] EXCEPT !.selected = FALSE]]

\* config.Select: the rows are unselected (line 206) before the row of id is
\* looked for (line 212), so the failing call holds unselected rows in its
\* transaction when it returns.
ConfigSelect_AlwaysRun(id) ==
    /\ svcPc = "idle"
    /\ LET isReplace == SelectedConfigs(tables) # {}
           t == [tables EXCEPT !.config = [Unselected(@) EXCEPT ![id].selected = TRUE]]
       IN  IF tables.config[id].st # "row"
               THEN Return(0, Failure("no such config"),
                           [tables EXCEPT !.config = Unselected(@)], tables)
           ELSE IF isReplace
               THEN RunLoad("config.Select", t)
           ELSE Return(1, NoError, t, tables)

ConfigSelect(id) ==
    /\ svcPc = "idle"
    /\ LET isReplace == SelectedConfigs(tables) # {}
           t == [tables EXCEPT !.config = [Unselected(@) EXCEPT ![id].selected = TRUE]]
       IN  IF tables.config[id].st # "row"
               THEN Return(0, Failure("no such config"),
                           [tables EXCEPT !.config = Unselected(@)], tables)
           ELSE IF isReplace /\ tables.sys.running
               THEN RunLoad("config.Select", t)
           ELSE Return(1, NoError, t, tables)

\* config.Remove.
ConfigRemove(id) ==
    /\ svcPc = "idle"
    /\ LET hit == tables.config[id].st = "row"
           wasSelected == tables.config[id].selected
           t == [tables EXCEPT !.config[id] =
                     [st |-> "gone", selected |-> FALSE, version |-> 0]]
       IN  IF ~hit
               THEN Return(0, NoError, tables, tables)
           ELSE IF wasSelected /\ tables.sys.running
               THEN RunStop("config.Remove", t)
           ELSE Return(1, NoError, t, tables)

\* config.Run called by the run mutation with the plain database handle.
ConfigRun(noLoad) ==
    /\ svcPc = "idle"
    /\ IF noLoad THEN RunStop("config.Run", tables) ELSE RunLoad("config.Run", tables)

\* What lines 431-446 write to db.System.
SavedRunning_DnsFromConfig(l) ==
    [running |-> TRUE,
     running_config_id |-> l.mConfig.id,
     running_config_version |-> l.mConfig.version,
     running_dns_id |-> l.mDns.id,
     running_dns_version |-> l.mConfig.version,
     running_routing_id |-> l.mRouting.id,
     running_routing_version |-> l.mRouting.version,
     running_group_versions |-> [k \in DOMAIN l.groups |-> l.groups[k].version]]

SavedRunning(l) ==
    [running |-> TRUE,
     running_config_id |-> l.mConfig.id,
     running_config_version |-> l.mConfig.version,
     running_dns_id |-> l.mDns.id,
     running_dns_version |-> l.mDns.version,
     running_routing_id |-> l.mRouting.id,
     running_routing_version |-> l.mRouting.version,
     running_group_versions |-> [k \in DOMAIN l.groups |-> l.groups[k].version]]

\* The reply to the request of line 417 arrives: lines 421-451.
ReplyLoad(errReload) ==
    /\ svcPc = "waitLoad"
    /\ IF errReload # NoError
           THEN Return(0, Failure("failed to load new config"), tables, txBegin)
           ELSE Return(1, NoError,
                       [tables EXCEPT !.sys = SavedRunning(locals)], txBegin)

\* What lines 266-268 write to db.System.
SavedStopped(sys) == [sys EXCEPT !.running = FALSE]

\* The reply to the request of line 252 arrives: lines 256-271.
ReplyStop(err) ==
    /\ svcPc = "waitStop"
    /\ IF err # NoError
           THEN Return(0, Failure("failed to dryrun"), tables, txBegin)
           ELSE Return(1, NoError,
                       [tables EXCEPT !.sys = SavedStopped(@)], txBegin)

\* --------------------------------------------------------- routing calls
\* routing.Select.
RoutingSelect(id) ==
    /\ svcPc = "idle"
    /\ IF id \notin RoutingIds
           THEN Return(0, Failure("no such config"),
                       [tables EXCEPT !.routing = Unselected(@)], tables)
           ELSE Return(1, NoError,
                       [tables EXCEPT !.routing =
                            [Unselected(@) EXCEPT ![id].selected = TRUE]], tables)

Replies == {NoError, ReloadError}

ServiceNext ==
    \/ \E id \in ConfigIds : ConfigUpdate(id) /\ UNCHANGED <<daeVars, assemblyVars>>
    \/ \E id \in ConfigIds : ConfigSelect(id) /\ UNCHANGED <<daeVars, assemblyVars>>
    \/ \E id \in ConfigIds : ConfigRemove(id) /\ UNCHANGED <<daeVars, assemblyVars>>
    \/ \E noLoad \in BOOLEAN : ConfigRun(noLoad) /\ UNCHANGED <<daeVars, assemblyVars>>
    \/ \E e \in Replies : ReplyLoad(e) /\ UNCHANGED <<daeVars, assemblyVars>>
    \/ \E e \in Replies : ReplyStop(e) /\ UNCHANGED <<daeVars, assemblyVars>>
    \/ \E id \in RoutingIds \cup {NoRoutingId} : RoutingSelect(id)
                                         /\ UNCHANGED <<daeVars, assemblyVars>>

ServiceInit == ServiceStart /\ DaeParked /\ AssemblyParked

ServiceSpec == ServiceInit /\ [][ServiceNext]_vars

\* ------------------------------------------------------ service claims
\* C11: when config.Run receives the success reply to the configuration it
\* assembled and sent, the db.System row it saves has running = TRUE and
\* holds exactly the ids and versions of the config, dns and routing rows,
\* and the versions of the groups, that the configuration was built from.
C11_RoundTrip ==
    [][svcPc = "waitLoad" /\ svcPc' = "idle" /\ returned'.err = NoError
        => LET C == request.Config
               sys == tables'.sys
           IN  /\ sys.running
               /\ sys.running_config_id = C.global.id
               /\ sys.running_config_version = C.global.version
               /\ sys.running_dns_id = C.dns.id
               /\ sys.running_dns_version = C.dns.version
               /\ sys.running_routing_id = C.routing.id
               /\ sys.running_routing_version = C.routing.version
               /\ sys.running_group_versions =
                      [k \in DOMAIN C.group |-> C.group[k].version]]_vars

\* A saved running state of the second config row with two groups, whose
\* config and dns versions differ.
C11_Witness ==
    /\ svcPc = "idle"
    /\ tables.sys.running
    /\ tables.sys.running_config_id = NumProfiles
    /\ tables.sys.running_config_version # tables.sys.running_dns_version
    /\ Len(tables.sys.running_group_versions) = Len(GroupOrder)

\* ========================================================= the assembly
\* Lines 340-413 of config.Run: the nodes of the groups found are collected,
\* deduplicated by link, given unique names, and written to c.Group and
\* c.Node.  A string is a sequence of characters, so that fmt.Sprintf is a
\* concatenation; a nil pointer is the empty set and a pointer to v is {v}.
\* `range` over a Go map visits the keys in an order the runtime chooses:
\* every order is explored.

\* ---------------------------------------------------------------- bounds
\* Node records collected from the groups in one run of config.Run.
MaxNodes == 3

\* The rows of db.Node the groups may hold.  Tags are unique among the rows
\* (line 160).  Rows 1 and 4 and rows 2 and 6 share a link; rows 1, 2 and 6
\* share a name, which is also the tag of row 4; row 3 is named, and row 7
\* tagged, like the first suffixed name of rows 1 and 2; rows 3 and 7 share
\* a link; row 5 has an empty name.
NodeRows ==
    << [Link |-> <<"k">>, Name |-> <<"a">>, Tag |-> {}, SubscriptionID |-> {}],
       [Link |-> <<"l">>, Name |-> <<"a">>, Tag |-> {}, SubscriptionID |-> {}],
       [Link |-> <<"m">>, Name |-> <<"a", ".", "0">>, Tag |-> {}, SubscriptionID |-> {}],
       [Link |-> <<"k">>, Name |-> <<"b">>, Tag |-> {<<"a">>}, SubscriptionID |-> {}],
       [Link |-> <<"n">>, Name |-> <<>>, Tag |-> {}, SubscriptionID |-> {}],
       [Link |-> <<"l">>, Name |-> <<"a">>, Tag |-> {}, SubscriptionID |-> {1}],
       [Link |-> <<"m">>, Name |-> <<"c">>, Tag |-> {<<"a", ".", "0">>}, SubscriptionID |-> {}] >>

\* The node of lines 136-140.
Node(dbNode, groups) == [dbNode |-> dbNode, groups |-> groups, uniqueName |-> <<>>]

Range(s) == {s[i] : i \in DOMAIN s}
\* The orders in which a map with the keys S may be visited.
Orders(S) == {o \in [1..Cardinality(S) -> S] : \A i, j \in DOMAIN o : o[i] = o[j] => i = j}

AssemblyStart ==
    /\ asmPc = "collect"
    /\ loaded = <<>>
    /\ nodes = <<>>
    /\ cGroup = <<>>
    /\ cNode = <<>>

AssemblyInit == AssemblyStart /\ DaeParked /\ ServiceParked

\* ------------------------------------------------------------ collecting
\* The position of group g in `groups`.
GroupIndex(g) == CHOOSE k \in DOMAIN GroupOrder : GroupOrder[k] = g

\* Lines 341-365 append one node: the groups are visited in order, within a
\* group the nodes of its subscriptions come before its solitary nodes, and
\* a row is in a group once.
Collect(row, g) ==
    /\ asmPc = "collect"
    /\ Len(loaded) < MaxNodes
    /\ \A i \in DOMAIN loaded :
        LET n == loaded[i]
            h == n.groups[1]
        IN  /\ GroupIndex(h) <= GroupIndex(g)
            /\ h = g => n.dbNode # row
            /\ h = g /\ n.dbNode.SubscriptionID = {} => row.SubscriptionID = {}
    /\ loaded' = Append(loaded, Node(row, <<g>>))
    /\ UNCHANGED <<asmPc, nodes, cGroup, cNode>>

\* ---------------------------------------------------------- deduplicating
RECURSIVE Concat(_)
Concat(ss) == IF ss = <<>> THEN <<>> ELSE Head(ss) \o Concat(Tail(ss))

\* The map `set` of deduplicateNodes after the first loop: per link the first
\* node with it, its groups followed by those of the later nodes with it.
LinkSet(ns) ==
    [L \in {ns[i].dbNode.Link : i \in DOMAIN ns} |->
        LET same == SelectSeq(ns, LAMBDA n : n.dbNode.Link = L)
        IN  [same[1] EXCEPT !.groups = Concat([k \in DOMAIN same |-> same[k].groups])]]

\* The links in the order of their first node.
RECURSIVE FirstSeen(_)
FirstSeen(ns) ==
    IF ns = <<>> THEN <<>>
    ELSE LET before == FirstSeen(SubSeq(ns, 1, Len(ns) - 1))
             L == ns[Len(ns)].dbNode.Link
         IN  IF L \in Range(before) THEN before ELSE Append(before, L)

\* deduplicateNodes(nodes) when the second loop visits `set` in the order o.
deduplicateNodes(ns, o) == [k \in DOMAIN o |-> LinkSet(ns)[o[k]]]

Deduplicate ==
    /\ asmPc = "collect"
    /\ \E o \in Orders(DOMAIN LinkSet(loaded)) : nodes' = deduplicateNodes(loaded, o)
    /\ asmPc' = "deduplicated"
    /\ UNCHANGED <<loaded, cGroup, cNode>>

\* -------------------------------------------------------------- naming
DigitChars == <<"0", "1", "2", "3", "4", "5", "6", "7", "8", "9">>
\* The decimal digits %v writes for an unsigned number.
RECURSIVE Decimal(_)
Decimal(n) ==
    IF n < Len(DigitChars)
        THEN <<DigitChars[n + 1]>>
        ELSE Append(Decimal(n \div Len(DigitChars)), DigitChars[(n % Len(DigitChars)) + 1])

\* fmt.Sprintf("%v.%v", a, b) on strings.
Dotted(a, b) == a \o <<".">> \o b

\* sort.SliceStable with less(i, j) = tagged(i) and not tagged(j).
TaggedFirst(ns) ==
    SelectSeq(ns, LAMBDA n : n.dbNode.Tag # {}) \o SelectSeq(ns, LAMBDA n : n.dbNode.Tag = {})

\* baseName of lines 170-173.
BaseName(dbNode) ==
    IF dbNode.SubscriptionID # {}
        THEN Dotted(Decimal(CHOOSE id \in dbNode.SubscriptionID : TRUE), dbNode.Name)
        ELSE dbNode.Name

\* The loop of lines 176-184: the name stored for baseName in the map m.
RECURSIVE WantedName_FromOne(_, _, _, _)
WantedName_FromOne(m, baseName, wantedName, j) ==
    IF wantedName \notin DOMAIN m
        THEN wantedName
        ELSE WantedName_FromOne(m, baseName, Dotted(baseName, Decimal(j + 1)), j + 1)

WantedName_NoCheck(m, baseName, wantedName, j) == wantedName

RECURSIVE WantedName(_, _, _, _)
WantedName(m, baseName, wantedName, j) ==
    IF wantedName \notin DOMAIN m
        THEN wantedName
        ELSE WantedName(m, baseName, Dotted(baseName, Decimal(j)), j + 1)

\* m[name] = v.
Put(m, name, v) == [x \in DOMAIN m \cup {name} |-> IF x = name THEN v ELSE m[x]]

\* nameToNodes after the first k nodes of ns: a name maps to the position of
\* its node.
RECURSIVE NameToNodes(_, _)
NameToNodes(ns, k) ==
    IF k = 0 THEN [x \in {} |-> 0]
    ELSE LET m == NameToNodes(ns, k - 1)
             dbNode == ns[k].dbNode
         IN  IF dbNode.Tag # {}
                 THEN Put(m, CHOOSE t \in dbNode.Tag : TRUE, k)
                 ELSE Put(m, WantedName(m, BaseName(dbNode), BaseName(dbNode), 0), k)

\* uniquefyNodesName(nodes): the sorted nodes with the names of lines 187-189.
\* A node is stored in nameToNodes under one name at most.
uniquefyNodesName(ns) ==
    LET sorted == TaggedFirst(ns)
        m == NameToNodes(sorted, Len(sorted))
    IN  [k \in DOMAIN sorted |->
            [sorted[k] EXCEPT !.uniqueName =
                IF \E x \in DOMAIN m : m[x] = k
                    THEN CHOOSE x \in DOMAIN m : m[x] = k
                    ELSE <<>>]]

Uniquefy ==
    /\ asmPc = "deduplicated"
    /\ nodes' = uniquefyNodesName(nodes)
    /\ asmPc' = "named"
    /\ UNCHANGED <<loaded, cGroup, cNode>>

\* ------------------------------------------------------------ emitting
\* mGroupNode of lines 369-374: per group the nodes appended for it.
RECURSIVE Repeat(_, _)
Repeat(x, n) == IF n = 0 THEN <<>> ELSE Append(Repeat(x, n - 1), x)
Occurrences(s, x) == Cardinality({i \in DOMAIN s : s[i] = x})

MGroupNode(ns) ==
    [g \in UNION {Range(ns[i].groups) : i \in DOMAIN ns} |->
        Concat([i \in DOMAIN ns |-> Repeat(ns[i], Occurrences(ns[i].groups, g))])]

\* The daeConfig.Group of lines 393-408, without its policy.
GroupSpec(g, members) ==
    [Name |-> g, Filter |-> [k \in DOMAIN members |-> members[k].uniqueName]]

\* The entry of line 412.
NodeEntry(n) == n.uniqueName \o <<":">> \o n.dbNode.Link

Emit ==
    /\ asmPc = "named"
    /\ LET mGroupNode == MGroupNode(nodes)
       IN  \E o \in Orders(DOMAIN mGroupNode) :
               cGroup' = [k \in DOMAIN o |-> GroupSpec(o[k], mGroupNode[o[k]])]
    /\ cNode' = [k \in DOMAIN nodes |-> NodeEntry(nodes[k])]
    /\ asmPc' = "emitted"
    /\ UNCHANGED <<loaded, nodes>>

AssemblyNext ==
    \/ \E r \in DOMAIN NodeRows, g \in GroupNames : Collect(NodeRows[r], g)
                                         /\ UNCHANGED <<daeVars, serviceVars>>
    \/ Deduplicate /\ UNCHANGED <<daeVars, serviceVars>>
    \/ Uniquefy /\ UNCHANGED <<daeVars, serviceVars>>
    \/ Emit /\ UNCHANGED <<daeVars, serviceVars>>

AssemblySpec == AssemblyInit /\ [][AssemblyNext]_vars

\* ----------------------------------------------------- assembly claims
\* The name a node of the link L has among the named nodes ns.
NameOfLink(ns, L) == (CHOOSE n \in Range(ns) : n.dbNode.Link = L).uniqueName

\* C12: for one list of collected node records, every run of deduplicate and
\* uniquify gives each resolved node the same unique name: the name it gets
\* when the map of deduplicateNodes is visited in the order of the input.
C12_DeterministicNames ==
    asmPc = "named" =>
        LET reference == uniquefyNodesName(deduplicateNodes(loaded, FirstSeen(loaded)))
        IN  \A i \in DOMAIN nodes :
                nodes[i].uniqueName = NameOfLink(reference, nodes[i].dbNode.Link)

\* The links among the collected records, and per link the groups of the
\* records with it.
LoadedLinks == {loaded[i].dbNode.Link : i \in DOMAIN loaded}
RecordsOf(L, g) == {i \in DOMAIN loaded : loaded[i].dbNode.Link = L /\ loaded[i].groups = <<g>>}
GroupsOfLink(L) == {g \in GroupNames : RecordsOf(L, g) # {}}
\* The entries of c.Node for the link L: those that end in ":" and L.
HasLink(entry, L) ==
    /\ Len(entry) > Len(L)
    /\ SubSeq(entry, Len(entry) - Len(L) + 1, Len(entry)) = L
    /\ entry[Len(entry) - Len(L)] = ":"
EntriesOf(L) == {i \in DOMAIN cNode : HasLink(cNode[i], L)}
\* The names in the filters of the entries of c.Group named g.
FilterOf(g) ==
    Concat([k \in DOMAIN cGroup |-> IF cGroup[k].Name = g THEN cGroup[k].Filter ELSE <<>>])
NodeOfLink(L) == CHOOSE n \in Range(nodes) : n.dbNode.Link = L

\* C13: for every link among the collected records c.Node has
\* exactly one entry, the node's groups are the groups of the records with
\* the link, each group once, and its name is in the filter of each of
\* these groups, once, and in the filter of no other group.
C13_DedupByLink ==
    asmPc = "emitted" =>
        \A L \in LoadedLinks :
            /\ Cardinality(EntriesOf(L)) = 1
            /\ Cardinality({n \in Range(nodes) : n.dbNode.Link = L}) = 1
            /\ Range(NodeOfLink(L).groups) = GroupsOfLink(L)
            /\ \A g \in GroupNames :
                /\ Occurrences(NodeOfLink(L).groups, g) = IF g \in GroupsOfLink(L) THEN 1 ELSE 0
                /\ Occurrences(FilterOf(g), NodeOfLink(L).uniqueName)
                       = IF g \in GroupsOfLink(L) THEN 1 ELSE 0

Named == asmPc \in {"named", "emitted"}
Tagged(n) == n.dbNode.Tag # {}

\* C14: every resolved node with a tag is named by its tag exactly, and no
\* other resolved node, tagged or not, has that name.
C14_TagIsName ==
    Named =>
        \A i \in DOMAIN nodes :
            Tagged(nodes[i]) =>
                /\ nodes[i].dbNode.Tag = {nodes[i].uniqueName}
                /\ \A j \in DOMAIN nodes \ {i} : nodes[j].uniqueName # nodes[i].uniqueName

\* Named nodes with two tagged ones, one of them tagged with the base name
\* of an untagged node.
C14_Witness ==
    /\ Named
    /\ \E i, j, k \in DOMAIN nodes :
        /\ i # k
        /\ Tagged(nodes[i])
        /\ Tagged(nodes[k])
        /\ ~Tagged(nodes[j])
        /\ nodes[i].dbNode.Tag = {BaseName(nodes[j].dbNode)}

\* ------------------------------------------------ service claims (2)
\* The outbound names of the selected routing that are neither a preset nor
\* the name of a row of db.Group.
MissingGroups(t) ==
    {RoutingOutbounds[First(SelectedRoutings(t))][k] :
        k \in DOMAIN RoutingOutbounds[First(SelectedRoutings(t))]}
        \ (Presets \cup GroupNames)

\* The steps in which config.Run(d, false) is called with a selected config:
\* by the run mutation, or by config.Select when it replaces a selection
\* while db.System says running.
CallsRunLoad ==
    \/ ConfigRun(FALSE) /\ SelectedConfigs(tables) # {}
    \/ \E id \in ConfigIds :
        /\ ConfigSelect(id)
        /\ tables.config[id].st = "row"
        /\ SelectedConfigs(tables) # {}
        /\ tables.sys.running

\* C15: when config.Run assembles from a selected config, dns and routing and
\* the routing references a name that is neither a preset nor a group, the
\* call fails with the error that names exactly the missing groups, sends no
\* request and leaves every row, db.System included, as it was.
C15_MissingGroupsFail ==
    [][CallsRunLoad /\ tables.dns.selected /\ SelectedRoutings(tables) # {}
            /\ MissingGroups(tables) # {}
        => /\ returned' = [n |-> 0,
                           err |-> [msg |-> "groups not defined but referenced by routing",
                                    names |-> MissingGroups(tables)]]
           /\ request' = NoRequest
           /\ svcPc' = "idle"
           /\ tables' = tables]_vars

\* A call failed for two missing groups while db.System says running.
C15_Witness ==
    /\ svcPc = "idle"
    /\ returned.err.msg = "groups not defined but referenced by routing"
    /\ Cardinality(returned.err.names) > 1
    /\ tables.sys.running

\* A step of config.Select or of routing.Select.
SelectStep ==
    \/ \E id \in ConfigIds : ConfigSelect(id)
    \/ \E id \in RoutingIds \cup {NoRoutingId} : RoutingSelect(id)

\* The rows differ in their selected flags at most.
OnlySelectedFlagsChange ==
    /\ tables'.sys = tables.sys
    /\ tables'.dns = tables.dns
    /\ tables'.group = tables.group
    /\ \A i \in ConfigIds :
        [tables'.config[i] EXCEPT !.selected = FALSE]
            = [tables.config[i] EXCEPT !.selected = FALSE]
    /\ \A i \in RoutingIds :
        [tables'.routing[i] EXCEPT !.selected = FALSE]
            = [tables.routing[i] EXCEPT !.selected = FALSE]

\* C16: a Select while db.System says not running sends no request, returns
\* without waiting for the orchestrator and changes selected flags only; a
\* Select sends a request only when a row was selected before and db.System
\* says running.
C16_SelectNotServing ==
    [][SelectStep
        => /\ ~tables.sys.running
               => request' = NoRequest /\ svcPc' = "idle" /\ OnlySelectedFlagsChange
           /\ request' # NoRequest
               => SelectedConfigs(tables) # {} /\ tables.sys.running]_vars

\* Not running, with the last config row selected and a dns and a routing
\* selected, so that config.Run would have sent a request had it been called.
C16_Witness ==
    /\ svcPc = "idle"
    /\ ~tables.sys.running
    /\ SelectedConfigs(tables) = {NumProfiles}
    /\ tables.dns.selected
    /\ SelectedRoutings(tables) # {}
    /\ MissingGroups(tables) = {}
    /\ returned = [n |-> 1, err |-> NoError]

\* C17: config.Remove of the selected row while db.System says running sends
\* the empty configuration and waits with db.System untouched; the step that
\* receives the reply writes running = FALSE, and nothing else, to db.System
\* when the reply is no error, and leaves db.System as it was otherwise.
C17_StopServing ==
    [][/\ \A id \in ConfigIds :
            ConfigRemove(id) /\ tables.config[id].st = "row"
                /\ tables.config[id].selected /\ tables.sys.running
            => /\ svcPc' = "waitStop"
               /\ request' = [Config |-> EmptyConfig]
               /\ tables'.sys = tables.sys
       /\ svcPc = "waitStop" /\ svcPc' = "idle"
            => /\ request = [Config |-> EmptyConfig]
               /\ tables'.sys = IF returned'.err = NoError
                                    THEN [tables.sys EXCEPT !.running = FALSE]
                                    ELSE tables.sys]_vars

\* The config row db.System names as running was removed and db.System says
\* not running.
C17_Witness ==
    /\ svcPc = "idle"
    /\ ~tables.sys.running
    /\ tables.sys.running_config_id \in ConfigIds
    /\ tables.config[tables.sys.running_config_id].st = "gone"
    /\ returned = [n |-> 1, err |-> NoError]

\* --------------------------------------------------- orchestrator claims
\* C18: a nil dequeued by the loop while reloading is false ends Run: the loop
\* exits and the current control plane is closed; a nil dequeued by dryLoop
\* ends Run with every request dequeued before it answered and no control
\* plane ever constructed; once Run has exited no request is dequeued or
\* answered and no control plane is constructed.
C18_SentinelTerminal ==
    [][/\ pc = "loop" /\ pc' # pc /\ Head(ChReloadConfigs) = NilMsg /\ ~reloading
            => pc' = "exited" /\ c \in closed' /\ c \notin bpfHolders'
       /\ pc = "dryLoop" /\ pc' # pc
            => /\ Head(ChReloadConfigs) = NilMsg
               /\ pc' = "exited"
               /\ instCfg' = <<>>
               /\ \A r \in MsgIds : msgs[r].st = "replied" \/ InBuffer(r)
       /\ pc = "exited"
            => /\ pc' = "exited"
               /\ instCfg' = instCfg
               /\ \A r \in MsgIds : msgs'[r] = msgs[r]
               /\ \A i \in DOMAIN ChReloadConfigs : ChReloadConfigs'[i] = ChReloadConfigs[i]]_vars

\* Run has exited on a nil with its control plane closed and a request left
\* in the channel.
C18_Witness ==
    /\ pc = "exited"
    /\ c # None
    /\ c \in closed
    /\ \E r \in MsgIds : InBuffer(r) /\ msgs[r].st = "queued"

\* ------------------------------------------------- assembly claims (2)
\* C19: c.Group has exactly one entry for every group found for the routing,
\* also for a group from which no node was collected, and the filter of the
\* entry lists exactly the unique names of the resolved nodes of the group.
C19_OneGroupSpecPerGroup ==
    asmPc = "emitted" =>
        \A g \in GroupNames :
            /\ Cardinality({k \in DOMAIN cGroup : cGroup[k].Name = g}) = 1
            /\ Range(FilterOf(g))
                   = {n.uniqueName : n \in {m \in Range(nodes) : g \in Range(m.groups)}}

\* The names held by the nodes named before position k.
ReservedBefore(k) == {nodes[i].uniqueName : i \in 1..(k - 1)}
\* The untagged node at position k has its base name when no earlier node
\* holds it, and otherwise the base name with the smallest suffix index whose
\* string no earlier node holds.
FirstFreeName(k) ==
    LET base == BaseName(nodes[k].dbNode)
        name == nodes[k].uniqueName
    IN  IF base \notin ReservedBefore(k)
            THEN name = base
            ELSE \E j \in 0..Len(nodes) :
                    /\ name = Dotted(base, Decimal(j))
                    /\ name \notin ReservedBefore(k)
                    /\ \A i \in 0..(j - 1) : Dotted(base, Decimal(i)) \in ReservedBefore(k)
PairwiseDistinctNames ==
    \A i, j \in DOMAIN nodes : i # j => nodes[i].uniqueName # nodes[j].uniqueName

AtMostOneSelected ==
    /\ Cardinality(SelectedConfigs(tables)) <= 1
    /\ Cardinality(SelectedRoutings(tables)) <= 1

Succeeded == returned' = [n |-> 1, err |-> NoError]
NoSuchConfig == returned' = [n |-> 0, err |-> Failure("no such config")]

\* config.Select(id) from its first statement to its return or to its wait
\* for the orchestrator, and from the reply to its return.
ConfigSelectLeavesOne ==
    /\ \A id \in ConfigIds :
         ConfigSelect(id) =>
            /\ SelectedRoutings(tables') = SelectedRoutings(tables)
            /\ IF tables.config[id].st # "row"
                   THEN NoSuchConfig /\ svcPc' = "idle" /\ tables' = tables
               ELSE IF svcPc' = "waitLoad"
                   THEN SelectedConfigs(tables') = {id}
               ELSE IF Succeeded
                   THEN SelectedConfigs(tables') = {id}
               ELSE tables' = tables
    /\ svcPc = "waitLoad" /\ call = "config.Select" /\ svcPc' = "idle"
         => IF Succeeded
                THEN /\ SelectedConfigs(tables') = SelectedConfigs(tables)
                     /\ SelectedRoutings(tables') = SelectedRoutings(tables)
                ELSE tables' = txBegin

\* routing.Select(id).
RoutingSelectLeavesOne ==
    \A id \in RoutingIds \cup {NoRoutingId} :
        RoutingSelect(id) =>
            /\ SelectedConfigs(tables') = SelectedConfigs(tables)
            /\ IF id \in RoutingIds
                   THEN Succeeded /\ SelectedRoutings(tables') = {id}
                   ELSE NoSuchConfig /\ tables' = tables

\* C21: whatever Selects ran, at most one config row and at most one routing
\* row is selected; a Select of id that succeeds leaves exactly the row of id
\* selected among the rows of its kind; a Select of an id that no row has
\* fails with "no such config" and leaves every row, the selected one
\* included, as it was before the call.
C21_SelectExactlyOne ==
    /\ []AtMostOneSelected
    /\ [][ConfigSelectLeavesOne /\ RoutingSelectLeavesOne]_vars

\* A Select has just failed with "no such config" while the first config row
\* and a routing row are selected and the last config row is removed.
C21_Witness ==
    /\ svcPc = "idle"
    /\ returned = [n |-> 0, err |-> Failure("no such config")]
    /\ SelectedConfigs(tables) = {1}
    /\ tables.config[NumProfiles].st = "gone"
    /\ SelectedRoutings(tables) # {}

====
